---- MODULE Spec2Model ----
(***************************************************************************)
(* Model of mrmd's ProcessManager (src/src/mrmd/processes.py): an asyncio  *)
(* supervisor of named child processes.  Every coroutine runs on one event *)
(* loop, so the code between two awaits is one atomic step.  A caller is a *)
(* coroutine that invokes the manager's operations; an action of the model *)
(* is the stretch of a method from one suspension point to the next.       *)
(***************************************************************************)
EXTENDS Integers, Sequences, FiniteSets, TLC

(* ---- bounds of the model ---------------------------------------------- *)
MaxProcs == 2       \* child processes spawned in one run
MaxEmit == 2        \* lines a child writes to its merged stdout/stderr
MaxCallers == 2     \* coroutines calling the manager concurrently
BufEmit == 1002     \* lines the child of SpecBuffer writes (past the capacity)
PipeLines == 1      \* unread lines the pipe holds in SpecBuffer

(* ---- program constants ------------------------------------------------ *)
max_output_lines == 1000     \* self._max_output_lines
DefaultLines == 50           \* get_output(lines=50)
DefaultTimeout == 5          \* stop(timeout=5.0), stop_all(timeout=5.0)

Names == {"a", "b"}
Procs == 1..MaxProcs
Callers == 1..MaxCallers
Timeouts == {5}
StopTimeouts == {1, DefaultTimeout}  \* the timeouts SpecStopAll passes
Kinds == {"node", "python", "npx"}
Callbacks == {"none", "given"}     \* on_output: None, or a callable
QueryLines == {0, 1, DefaultLines} \* the lines arguments SpecQuery passes
LineArgs == {0, 1, 2, DefaultLines, max_output_lines - 1, max_output_lines,
             max_output_lines + 1}

VARIABLES
    processes,        \* self._processes: dict name -> Process, in insertion order
    output_buffers,   \* self._output_buffers: dict name -> deque(maxlen)
    output_tasks,     \* self._output_tasks: dict name -> Task
    proc,             \* the child processes (OS side and asyncio Process object)
    task,             \* the _read_output tasks, one per registered process
    call,             \* the caller coroutines and where each is suspended
    ret               \* the call that returned (or raised) in the last step

vars == <<processes, output_buffers, output_tasks, proc, task, call, ret>>

(* ---- Python values ---------------------------------------------------- *)
\* An Optional value is a sequence of length at most one: <<>> is None.
None == <<>>
Some(x) == <<x>>

\* dict (insertion ordered) as a sequence of <<key, value>> pairs
Keys(d) == [i \in 1..Len(d) |-> d[i][1]]
Has(d, k) == \E i \in 1..Len(d) : d[i][1] = k
Get(d, k) == d[CHOOSE i \in 1..Len(d) : d[i][1] = k][2]
Put(d, k, v) ==
    IF Has(d, k)
    THEN [i \in 1..Len(d) |-> IF d[i][1] = k THEN <<k, v>> ELSE d[i]]
    ELSE Append(d, <<k, v>>)
Del(d, k) == SelectSeq(d, LAMBDA e : e[1] # k)

\* seq[start:] with Python's treatment of a negative or too large start
PySliceFrom(s, start) ==
    LET n == Len(s)
        lo == IF start < 0 THEN (IF n + start < 0 THEN 0 ELSE n + start)
              ELSE (IF start > n THEN n ELSE start)
    IN SubSeq(s, lo + 1, n)

\* the line put in at the left end, as appendleft would
DequeAppend_left(buf, x, m) ==
    IF m = 0 THEN <<>>
    ELSE IF Len(buf) >= m THEN <<x>> \o SubSeq(buf, 1, Len(buf) - 1)
    ELSE <<x>> \o buf

\* deque(maxlen=m).append(x): the oldest entry is discarded once full
DequeAppend(buf, x, m) ==
    IF m = 0 THEN <<>>
    ELSE IF Len(buf) >= m THEN Append(Tail(buf), x)
    ELSE Append(buf, x)

(* ---- child processes -------------------------------------------------- *)
\* st: "none"    not spawned yet
\*     "running" the child runs
\*     "gone"    the child has exited and was waited for: the pid is gone, its
\*               end of the pipe is closed, but the event loop has not run
\*               the exit callback yet (Process.returncode is still None)
\*     "exited"  the loop has set Process.returncode
\* term, kill: how many SIGTERM / SIGKILL were delivered to the child
\* status: the exit status the OS holds for a child that has exited
NoProc == [st |-> "none", name |-> "", term |-> 0, kill |-> 0, status |-> 0,
           returncode |-> None, emitted |-> 0]
\* a _read_output task: st is "none", "running" (suspended in readline),
\* "cancelling" (cancel() requested, CancelledError not delivered yet) or
\* "done"; why is how it ended; passed are the lines given to the callback
NoTask == [st |-> "none", name |-> "", cb |-> "none", read |-> 0,
           why |-> "", passed |-> <<>>]
\* a caller coroutine inside a call: pc is where it is suspended, the other
\* fields are the call's arguments and locals; timeout is the argument of
\* the call, stop_timeout the one its current stop was called with
Idle == [op |-> "none", pc |-> "idle", name |-> "", timeout |-> 0,
         process |-> 0, names |-> <<>>, awaited |-> 0, cb |-> "none",
         path |-> "", stop_timeout |-> 0]
\* the call that came to its end in the step just taken: result is what it
\* returned ("True", "False", "None") or raised ("KeyError"); path is the
\* branch a stop took; process the child it started or signalled; arg and
\* value are the argument and the return value of a query
NoRet == [op |-> "none", name |-> "", result |-> "", path |-> "",
          process |-> 0, arg |-> 0, value |-> <<>>]
Return(op, n, result, path, p) ==
    [op |-> op, name |-> n, result |-> result, path |-> path,
     process |-> p, arg |-> 0, value |-> <<>>]

Spawned == {p \in Procs : proc[p].st # "none"}
Live(p) == proc[p].st = "running"
returncode(p) == proc[p].returncode

Init ==
    /\ processes = <<>>
    /\ output_buffers = <<>>
    /\ output_tasks = <<>>
    /\ proc = [p \in Procs |-> NoProc]
    /\ task = [p \in Procs |-> NoTask]
    /\ call = [c \in Callers |-> Idle]
    /\ ret = NoRet

\* a caller may begin a new operation when it is not inside one
Free(c) == call[c].pc = "idle"

(* ---- start_node_process / start_python_process / start_npx_process ---- *)
\* the name check left out: every name counts as free
NameInUse_never(n) == FALSE

\* the name check made on the process state: a name whose process has
\* exited counts as free
NameInUse_live(n) == Has(processes, n) /\ returncode(Get(processes, n)) = None

\* `if name in self._processes`
NameInUse(n) == Has(processes, n)

\* the process id the next spawn gets
NextProc == CHOOSE p \in Procs : proc[p].st = "none" /\ \A q \in Procs : q < p => proc[q].st # "none"

\* the buffer made before the checks: a start that returns False has
\* already replaced the buffer of its name by an empty one
StartCall_reset(c, n, kind, cb, found, spawnOk) ==
    /\ Free(c)
    /\ IF NameInUse(n) \/ ~found \/ ~spawnOk
       THEN /\ ret' = Return("start", n, "False",
                             IF NameInUse(n) THEN "in_use"
                             ELSE IF ~found THEN "not_found" ELSE "spawn_failed", 0)
            /\ output_buffers' = Put(output_buffers, n, <<>>)
            /\ UNCHANGED <<proc, call>>
       ELSE /\ \E p \in Procs : proc[p].st = "none"
            /\ proc' = [proc EXCEPT ![NextProc] = [NoProc EXCEPT !.st = "running", !.name = n]]
            /\ call' = [call EXCEPT ![c] = [Idle EXCEPT !.op = "start", !.pc = "create",
                                                     !.name = n, !.cb = cb, !.process = NextProc]]
            /\ ret' = NoRet
            /\ UNCHANGED output_buffers
    /\ UNCHANGED <<processes, output_tasks, task>>

\* The three start methods share their body from the name check to the
\* await on create_subprocess_exec.  found: get_node_executable() returned;
\* spawnOk: the OS created the child (it is forked before the await suspends).
\* A start that returns False records why in ret.path.
StartCall(c, n, kind, cb, found, spawnOk) ==
    /\ Free(c)
    /\ IF NameInUse(n) \/ ~found \/ ~spawnOk
       THEN /\ ret' = Return("start", n, "False",
                             IF NameInUse(n) THEN "in_use"
                             ELSE IF ~found THEN "not_found" ELSE "spawn_failed", 0)
            /\ UNCHANGED <<proc, call>>
       ELSE /\ \E p \in Procs : proc[p].st = "none"
            /\ proc' = [proc EXCEPT ![NextProc] = [NoProc EXCEPT !.st = "running", !.name = n]]
            /\ call' = [call EXCEPT ![c] = [Idle EXCEPT !.op = "start", !.pc = "create",
                                                     !.name = n, !.cb = cb, !.process = NextProc]]
            /\ ret' = NoRet
    /\ UNCHANGED <<processes, output_buffers, output_tasks, task>>

start_node_process(c, n, cb) ==
    \E found \in BOOLEAN, spawnOk \in BOOLEAN : StartCall(c, n, "node", cb, found, spawnOk)

start_python_process(c, n, cb) ==
    \E spawnOk \in BOOLEAN : StartCall(c, n, "python", cb, TRUE, spawnOk)

start_npx_process(c, n, cb) ==
    \E spawnOk \in BOOLEAN : StartCall(c, n, "npx", cb, TRUE, spawnOk)

\* create_subprocess_exec returned: register the process, give it a fresh
\* buffer and a drain task, return True.
StartRegister(c) ==
    LET n == call[c].name
        p == call[c].process
    IN /\ call[c].op = "start" /\ call[c].pc = "create"
       /\ processes' = Put(processes, n, p)
       /\ output_buffers' = Put(output_buffers, n, <<>>)
       /\ output_tasks' = Put(output_tasks, n, p)
       /\ task' = [task EXCEPT ![p] = [NoTask EXCEPT !.st = "running", !.name = n,
                                                   !.cb = call[c].cb]]
       /\ call' = [call EXCEPT ![c] = Idle]
       /\ ret' = Return("start", n, "True", "", p)
       /\ UNCHANGED proc

(* ---- the children and the event loop's view of them -------------------- *)
\* the child writes one more line to its merged stdout/stderr pipe, of at
\* most limit lines in all
ChildWrite(p, limit) ==
    /\ proc[p].st = "running"
    /\ proc[p].emitted < limit
    /\ proc' = [proc EXCEPT ![p].emitted = @ + 1]
    /\ ret' = NoRet
    /\ UNCHANGED <<processes, output_buffers, output_tasks, task, call>>

ChildEmit(p) == ChildWrite(p, MaxEmit)

\* the child of SpecBuffer writes on while the pipe has room
BufferWrite(p) ==
    /\ proc[p].emitted - task[p].read < PipeLines
    /\ ChildWrite(p, BufEmit)

ExitStatus(p) == IF proc[p].kill > 0 THEN -9 ELSE IF proc[p].term > 0 THEN -15 ELSE 0

\* the child exits: on its own, or because of a signal it was sent
ChildExit(p) ==
    /\ proc[p].st = "running"
    /\ proc' = [proc EXCEPT ![p].st = "gone", ![p].status = ExitStatus(p)]
    /\ ret' = NoRet
    /\ UNCHANGED <<processes, output_buffers, output_tasks, task, call>>

\* the loop runs the exit callback: Process.returncode is set
LoopExit(p) ==
    /\ proc[p].st = "gone"
    /\ proc' = [proc EXCEPT ![p].st = "exited", ![p].returncode = Some(proc[p].status)]
    /\ ret' = NoRet
    /\ UNCHANGED <<processes, output_buffers, output_tasks, task, call>>

(* ---- _read_output ------------------------------------------------------ *)
\* the i-th line read from process p, decoded and stripped
Line(p, i) == <<p, i>>

\* one turn of the loop: a line is read, appended to the buffer now stored
\* under the task's name and passed to the callback.  An exception of the
\* callback leaves the while loop through `except Exception`.
ReadLine(p, raises) ==
    LET t == task[p]
        line == Line(p, t.read + 1)
    IN /\ t.st = "running"
       /\ t.read < proc[p].emitted
       /\ raises => t.cb # "none"
       /\ output_buffers' = Put(output_buffers, t.name,
                                DequeAppend(Get(output_buffers, t.name), line, max_output_lines))
       /\ task' = [task EXCEPT ![p] =
                     [t EXCEPT !.read = @ + 1,
                               !.passed = IF t.cb = "none" THEN @ ELSE Append(@, line),
                               !.st = IF raises THEN "done" ELSE @,
                               !.why = IF raises THEN "error" ELSE @]]
       /\ ret' = NoRet
       /\ UNCHANGED <<processes, output_tasks, proc, call>>

\* readline() returns b"" at end of stream: the child is gone and the pipe
\* is empty
ReadEOF(p) ==
    /\ task[p].st = "running"
    /\ task[p].read = proc[p].emitted
    /\ proc[p].st # "running"
    /\ task' = [task EXCEPT ![p].st = "done", ![p].why = "eof"]
    /\ ret' = NoRet
    /\ UNCHANGED <<processes, output_buffers, output_tasks, proc, call>>

\* CancelledError is thrown into the task at its await
ReadCancelled(p) ==
    /\ task[p].st = "cancelling"
    /\ task' = [task EXCEPT ![p].st = "done", ![p].why = "cancelled"]
    /\ ret' = NoRet
    /\ UNCHANGED <<processes, output_buffers, output_tasks, proc, call>>

_read_output(p) ==
    \/ \E raises \in BOOLEAN : ReadLine(p, raises)
    \/ ReadEOF(p)
    \/ ReadCancelled(p)

(* ---- stop -------------------------------------------------------------- *)
\* The manager's mutable state as one value, so that the non-suspending
\* stretches of stop can be composed (stop_all runs one after another).
Manager == [processes |-> processes, output_tasks |-> output_tasks,
            proc |-> proc, task |-> task]

\* what a stretch of stop leaves behind: the manager state m, where the
\* coroutine is now (pc), and its locals
Outcome(m, pc, n, result, path, p, t) ==
    [m |-> m, pc |-> pc, name |-> n, result |-> result, path |-> path,
     process |-> p, awaited |-> t]

\* the entry left in place: `return True` without the del
DelProcessReturn_keep(m, n, path, p) ==
    Outcome(m, "done", n, "True", path, p, 0)

\* `del self._processes[name]; return True`: KeyError when the key is gone
DelProcessReturn(m, n, path, p) ==
    IF Has(m.processes, n)
    THEN Outcome([m EXCEPT !.processes = Del(@, n)], "done", n, "True", path, p, 0)
    ELSE Outcome(m, "raised", n, "KeyError", path, p, 0)

\* process.terminate() / process.kill(): ProcessLookupError when the pid is
\* gone and the loop has not noticed yet
LookupFails(m, p) == m.proc[p].st = "gone"

\* the `name not in self._processes` test left out: an unknown name goes on
\* to the deletion
StopEnter_nocheck(m, n) ==
    IF ~Has(m.processes, n)
    THEN DelProcessReturn(m, n, "unknown", 0)
    ELSE LET p == Get(m.processes, n)
         IN IF m.proc[p].returncode # None
            THEN DelProcessReturn(m, n, "exited", p)
            ELSE IF LookupFails(m, p)
            THEN DelProcessReturn(m, n, "vanished", p)
            ELSE Outcome([m EXCEPT !.proc[p].term = @ + 1],
                         "wait_term", n, "", "", p, 0)

\* the wait for the graceful exit left out: kill() follows terminate() at once
StopEnter_killnow(m, n) ==
    IF ~Has(m.processes, n)
    THEN Outcome(m, "done", n, "True", "unknown", 0, 0)
    ELSE LET p == Get(m.processes, n)
         IN IF m.proc[p].returncode # None
            THEN DelProcessReturn(m, n, "exited", p)
            ELSE IF LookupFails(m, p)
            THEN DelProcessReturn(m, n, "vanished", p)
            ELSE Outcome([m EXCEPT !.proc[p].term = @ + 1, !.proc[p].kill = @ + 1],
                         "wait_kill", n, "", "forced", p, 0)

\* terminate() called before the exit status is looked at: a process that
\* has exited is signalled too
StopEnter_signalfirst(m, n) ==
    IF ~Has(m.processes, n)
    THEN Outcome(m, "done", n, "True", "unknown", 0, 0)
    ELSE LET p == Get(m.processes, n)
             ms == [m EXCEPT !.proc[p].term = @ + 1]
         IN IF m.proc[p].returncode # None
            THEN DelProcessReturn(ms, n, "exited", p)
            ELSE IF LookupFails(m, p)
            THEN DelProcessReturn(m, n, "vanished", p)
            ELSE Outcome(ms, "wait_term", n, "", "", p, 0)

\* ProcessLookupError from terminate() not caught: it reaches the caller
StopEnter_uncaught(m, n) ==
    IF ~Has(m.processes, n)
    THEN Outcome(m, "done", n, "True", "unknown", 0, 0)
    ELSE LET p == Get(m.processes, n)
         IN IF m.proc[p].returncode # None
            THEN DelProcessReturn(m, n, "exited", p)
            ELSE IF LookupFails(m, p)
            THEN Outcome(m, "raised", n, "ProcessLookupError", "vanished", p, 0)
            ELSE Outcome([m EXCEPT !.proc[p].term = @ + 1],
                         "wait_term", n, "", "", p, 0)

\* lines 362-379: from the call to the await on wait_for(process.wait())
StopEnter(m, n) ==
    IF ~Has(m.processes, n)
    THEN Outcome(m, "done", n, "True", "unknown", 0, 0)
    ELSE LET p == Get(m.processes, n)
         IN IF m.proc[p].returncode # None
            THEN DelProcessReturn(m, n, "exited", p)
            ELSE IF LookupFails(m, p)
            THEN DelProcessReturn(m, n, "vanished", p)
            ELSE Outcome([m EXCEPT !.proc[p].term = @ + 1],
                         "wait_term", n, "", "", p, 0)

\* the del of the registry entry left out: only the drain-task entry goes
StopFinish_taskonly(m, n, path, p) ==
    IF Has(m.output_tasks, n)
    THEN Outcome([m EXCEPT !.output_tasks = Del(@, n)], "done", n, "True", path, p, 0)
    ELSE Outcome(m, "raised", n, "KeyError", path, p, 0)

\* lines 399-403: after the drain task was awaited
StopFinish(m, n, path, p) ==
    IF Has(m.output_tasks, n)
    THEN DelProcessReturn([m EXCEPT !.output_tasks = Del(@, n)], n, path, p)
    ELSE Outcome(m, "raised", n, "KeyError", path, p, 0)

\* Task.cancel(): a task that is done is left alone
Cancel(m, t) ==
    IF m.task[t].st = "running" THEN [m EXCEPT !.task[t].st = "cancelling"] ELSE m

\* lines 392-403: cancel the drain task stored under the name and await it;
\* awaiting a task that is done does not suspend
StopCleanup(m, n, path, p) ==
    IF Has(m.output_tasks, n)
    THEN LET t == Get(m.output_tasks, n)
             mc == Cancel(m, t)
         IN IF mc.task[t].st = "done"
            THEN StopFinish(mc, n, path, p)
            ELSE Outcome(mc, "await_task", n, "", path, p, t)
    ELSE DelProcessReturn(m, n, path, p)

\* the timeout branch without process.kill(): it only waits on
StopTimeout_nokill(m, n, p) ==
    Outcome(m, "wait_kill", n, "", "forced", p, 0)

\* lines 384-390: the timeout elapsed; kill and wait, or go on at once when
\* kill() raised ProcessLookupError
StopTimeout(m, n, p) ==
    IF LookupFails(m, p)
    THEN StopCleanup(m, n, "forced", p)
    ELSE Outcome([m EXCEPT !.proc[p].kill = @ + 1], "wait_kill", n, "", "forced", p, 0)

(* ---- stop_all ---------------------------------------------------------- *)
\* `for name in names: await self.stop(name, timeout)`: stop the names one
\* after another until a stop suspends or raises, or the list is exhausted.
\* The outcome carries the names still to be stopped.
\* the stops begun together: when the stop of a name suspends, the names
\* after it are signalled in the same stretch
RECURSIVE StopNames_together(_, _)
StopNames_together(m, names) ==
    IF names = <<>>
    THEN Outcome(m, "done", "", "None", "", 0, 0) @@ [names |-> <<>>]
    ELSE LET o == StopEnter(m, Head(names))
         IN IF o.pc = "done"
            THEN StopNames_together(o.m, Tail(names))
            ELSE [o EXCEPT !.m = StopNames_together(o.m, Tail(names)).m]
                 @@ [names |-> Tail(names)]

RECURSIVE StopNames(_, _)
StopNames(m, names) ==
    IF names = <<>>
    THEN Outcome(m, "done", "", "None", "", 0, 0) @@ [names |-> <<>>]
    ELSE LET o == StopEnter(m, Head(names))
         IN IF o.pc = "done"
            THEN StopNames(o.m, Tail(names))
            ELSE o @@ [names |-> Tail(names)]

\* where caller c is after its current stop came to outcome o: a plain stop
\* is over when its stop is; stop_all goes on with the next name
After(c, o) ==
    IF call[c].op = "stop_all" /\ o.pc = "done"
    THEN StopNames(o.m, call[c].names)
    ELSE o @@ [names |-> call[c].names]

\* install outcome o as the next state of the manager and of caller c; the
\* stop it is suspended in was called with the timeout t of the call
Install(c, op, t, o) ==
    /\ processes' = o.m.processes
    /\ output_tasks' = o.m.output_tasks
    /\ proc' = o.m.proc
    /\ task' = o.m.task
    /\ IF o.pc \in {"done", "raised"}
       THEN /\ call' = [call EXCEPT ![c] = Idle]
            /\ ret' = Return(op, o.name, o.result, o.path, o.process)
       ELSE /\ call' = [call EXCEPT ![c] =
                         [Idle EXCEPT !.op = op, !.pc = o.pc, !.name = o.name,
                                      !.timeout = t, !.process = o.process,
                                      !.names = o.names, !.awaited = o.awaited,
                                      !.path = o.path, !.stop_timeout = t]]
            /\ ret' = NoRet
    /\ UNCHANGED output_buffers

stop(c, n, t) ==
    /\ Free(c)
    /\ Install(c, "stop", t, StopEnter(Manager, n) @@ [names |-> <<>>])

stop_all(c, t) ==
    /\ Free(c)
    /\ Install(c, "stop_all", t, StopNames(Manager, Keys(processes)))

InStop(c) == call[c].op \in {"stop", "stop_all"}

\* wait_for(process.wait(), timeout) returned: the process has exited
StopWaited(c) ==
    /\ InStop(c) /\ call[c].pc = "wait_term"
    /\ returncode(call[c].process) # None
    /\ Install(c, call[c].op, call[c].timeout,
               After(c, StopCleanup(Manager, call[c].name, "graceful", call[c].process)))

\* wait_for raised TimeoutError: the process has not exited within timeout
StopTimedOut(c) ==
    /\ InStop(c) /\ call[c].pc = "wait_term"
    /\ returncode(call[c].process) = None
    /\ Install(c, call[c].op, call[c].timeout,
               After(c, StopTimeout(Manager, call[c].name, call[c].process)))

\* `await process.wait()` after kill() returned
StopKilled(c) ==
    /\ InStop(c) /\ call[c].pc = "wait_kill"
    /\ returncode(call[c].process) # None
    /\ Install(c, call[c].op, call[c].timeout,
               After(c, StopCleanup(Manager, call[c].name, "forced", call[c].process)))

\* `await self._output_tasks[name]` returned: the drain task is done
StopAwaited(c) ==
    /\ InStop(c) /\ call[c].pc = "await_task"
    /\ task[call[c].awaited].st = "done"
    /\ Install(c, call[c].op, call[c].timeout,
               After(c, StopFinish(Manager, call[c].name, call[c].path, call[c].process)))

(* ---- is_running --------------------------------------------------------- *)
\* the exit status left out: every registered name counts as running
is_running_registered(n) == Has(processes, n)

is_running(n) ==
    IF ~Has(processes, n) THEN FALSE
    ELSE returncode(Get(processes, n)) = None

(* ---- get_output --------------------------------------------------------- *)
\* list(buffer)[-lines:]
get_output(n, lines) ==
    IF ~Has(output_buffers, n) THEN <<>>
    ELSE PySliceFrom(Get(output_buffers, n), 0 - lines)

GetOutput(c, n, lines) ==
    /\ Free(c)
    /\ ret' = [Return("get_output", n, "", "", 0)
                 EXCEPT !.arg = lines, !.value = get_output(n, lines)]
    /\ UNCHANGED <<processes, output_buffers, output_tasks, proc, task, call>>

\* a caller asks is_running(n); the answer is recorded in ret.result
IsRunning(c, n) ==
    /\ Free(c)
    /\ ret' = Return("is_running", n, IF is_running(n) THEN "True" ELSE "False", "", 0)
    /\ UNCHANGED <<processes, output_buffers, output_tasks, proc, task, call>>

(* ---- get_status ---------------------------------------------------------- *)
\* process.pid: the child's process id, here its number
pid(p) == p

\* the pid reported whether or not the process has exited
get_status_pid ==
    [i \in 1..Len(processes) |->
        LET name == processes[i][1]
            p == processes[i][2]
        IN <<name, [running |-> is_running(name),
                    pid |-> Some(pid(p)),
                    returncode |-> returncode(p)]>>]

\* the dict comprehension over self._processes.items(), in insertion order
get_status ==
    [i \in 1..Len(processes) |->
        LET name == processes[i][1]
            p == processes[i][2]
        IN <<name, [running |-> is_running(name),
                    pid |-> IF returncode(p) = None THEN Some(pid(p)) ELSE None,
                    returncode |-> returncode(p)]>>]

GetStatus(c) ==
    /\ Free(c)
    /\ ret' = [Return("get_status", "", "", "", 0) EXCEPT !.value = get_status]
    /\ UNCHANGED <<processes, output_buffers, output_tasks, proc, task, call>>

(* ---- the specifications ------------------------------------------------- *)
\* the calls of the callers in CS, with names drawn from NS and on_output
\* from CBs, and what the children and the event loop do on their own
Lifecycle(CS, NS, CBs) ==
    \/ \E c \in CS, n \in NS, cb \in CBs : start_node_process(c, n, cb)
    \/ \E c \in CS, n \in NS, cb \in CBs : start_python_process(c, n, cb)
    \/ \E c \in CS, n \in NS, cb \in CBs : start_npx_process(c, n, cb)
    \/ \E c \in CS : StartRegister(c)
    \/ \E c \in CS, n \in NS, t \in Timeouts : stop(c, n, t)
    \/ \E c \in CS, t \in Timeouts : stop_all(c, t)
    \/ \E c \in CS : StopWaited(c)
    \/ \E c \in CS : StopTimedOut(c)
    \/ \E c \in CS : StopKilled(c)
    \/ \E c \in CS : StopAwaited(c)
    \/ \E p \in Procs : ChildExit(p)
    \/ \E p \in Procs : LoopExit(p)

\* Spec: the callers run concurrently; the children write nothing, so a
\* drain task only ever sees end of stream or its cancellation.
Next ==
    \/ Lifecycle(Callers, Names, {"none"})
    \/ \E p \in Procs : ReadEOF(p)
    \/ \E p \in Procs : ReadCancelled(p)

Spec == Init /\ [][Next]_vars

\* SpecOutput: one caller, whose calls follow one another, and one name;
\* the children write lines and the callbacks may raise.
NextOutput ==
    \/ Lifecycle({1}, {"a"}, Callbacks)
    \/ \E p \in Procs : ChildEmit(p)
    \/ \E p \in Procs : _read_output(p)

SpecOutput == Init /\ [][NextOutput]_vars

\* SpecQuery: one caller, whose calls follow one another, starts and stops
\* processes that write lines and, between its calls, asks for the output,
\* the running state and the status of every name.
NextQuery ==
    \/ Lifecycle({1}, Names, {"none"})
    \/ \E p \in Procs : ChildEmit(p)
    \/ \E p \in Procs : ReadLine(p, FALSE)
    \/ \E p \in Procs : ReadEOF(p)
    \/ \E p \in Procs : ReadCancelled(p)
    \/ \E n \in Names, lines \in QueryLines : GetOutput(1, n, lines)
    \/ \E n \in Names : IsRunning(1, n)
    \/ GetStatus(1)

SpecQuery == Init /\ [][NextQuery]_vars

\* SpecStopAll: one caller starts processes under both names and stops
\* them, one by one or all at once, with one of two timeouts.
NextStopAll ==
    \/ \E n \in Names : start_node_process(1, n, "none")
    \/ \E n \in Names : start_python_process(1, n, "none")
    \/ \E n \in Names : start_npx_process(1, n, "none")
    \/ StartRegister(1)
    \/ \E n \in Names, t \in StopTimeouts : stop(1, n, t)
    \/ \E t \in StopTimeouts : stop_all(1, t)
    \/ StopWaited(1)
    \/ StopTimedOut(1)
    \/ StopKilled(1)
    \/ StopAwaited(1)
    \/ \E p \in Procs : ChildExit(p)
    \/ \E p \in Procs : LoopExit(p)
    \/ \E p \in Procs : ReadEOF(p)
    \/ \E p \in Procs : ReadCancelled(p)

SpecStopAll == Init /\ [][NextStopAll]_vars

\* SpecBuffer: one child, started under the name "a", writes BufEmit lines,
\* more than the buffer holds, while the caller asks for the output.
NextBuffer ==
    \/ start_npx_process(1, "a", "none")
    \/ StartRegister(1)
    \/ \E p \in Procs : BufferWrite(p)
    \/ \E p \in Procs : ReadLine(p, FALSE)
    \/ \E n \in Names, lines \in LineArgs : GetOutput(1, n, lines)

SpecBuffer == Init /\ [][NextBuffer]_vars

\* SpecFair: one caller, one name, children that write nothing, under the
\* scheduling the event loop and the OS give: a coroutine or task that can
\* resume does resume, the timeout of wait_for elapses, the loop learns of
\* an exited child, and a child that was sent SIGKILL exits.
NextFair ==
    \/ Lifecycle({1}, {"a"}, {"none"})
    \/ \E p \in Procs : ReadEOF(p)
    \/ \E p \in Procs : ReadCancelled(p)

KilledExit(p) == proc[p].kill > 0 /\ ChildExit(p)

Fairness ==
    /\ WF_vars(StartRegister(1))
    /\ WF_vars(StopWaited(1))
    /\ WF_vars(StopTimedOut(1))
    /\ WF_vars(StopKilled(1))
    /\ WF_vars(StopAwaited(1))
    /\ \A p \in Procs : WF_vars(ReadEOF(p))
    /\ \A p \in Procs : WF_vars(ReadCancelled(p))
    /\ \A p \in Procs : WF_vars(LoopExit(p))
    /\ \A p \in Procs : WF_vars(KilledExit(p))

SpecFair == Init /\ [][NextFair]_vars /\ Fairness

(* ---- properties ---------------------------------------------------------- *)
Registered(n, p) == Has(processes, n) /\ Get(processes, n) = p
ActiveTask(p) == task[p].st \in {"running", "cancelling"}
\* caller c begins a call in this step (it was idle and is now inside the
\* call, or the call has already come to its end)
Begins(c, op, n) ==
    /\ call[c].pc = "idle"
    /\ \/ call'[c].op = op /\ call'[c].name = n
       \/ ret'.op = op /\ ret'.name = n /\ call' = call
\* a call of caller c that was suspended comes to its end in this step
Ends(c, op) == call[c].op = op /\ call'[c].pc = "idle"

\* C1: of overlapping starts with one name at most one succeeds: in every
\* state at most one live child spawned for a name exists, and a live child
\* whose start has returned is the registry entry of its name.
C1_OneLiveChildPerName ==
    /\ \A n \in Names : Cardinality({p \in Procs : Live(p) /\ proc[p].name = n}) <= 1
    /\ \A p \in Procs : Live(p) /\ task[p].st # "none" => Registered(proc[p].name, p)

\* C2: a start that begins while its name is registered returns False at
\* once, spawning nothing and leaving the registry, the buffers, the drain
\* tasks and the children as they are; a start that registers returns True
\* with its own process as the entry.
C2_SecondStartFails ==
    [][\A c \in Callers, n \in Names :
         /\ Begins(c, "start", n) /\ Has(processes, n)
              => /\ ret' = Return("start", n, "False", "in_use", 0)
                 /\ UNCHANGED <<processes, output_buffers, output_tasks, proc, task>>
         /\ Ends(c, "start") /\ call[c].name = n
              => /\ ret' = Return("start", n, "True", "", call[c].process)
                 /\ Has(processes', n) /\ Get(processes', n) = call[c].process
                 /\ Get(output_tasks', n) = call[c].process
                 /\ Get(output_buffers', n) = <<>>]_vars

\* C2 witness: a start has just returned False for a name whose first
\* process is registered and running
C2_Witness ==
    /\ ret.op = "start" /\ ret.result = "False"
    /\ Has(processes, ret.name) /\ Live(Get(processes, ret.name))
    /\ ActiveTask(Get(output_tasks, ret.name))

\* C3: no call of start, stop or stop_all ends by raising
C3_NeverRaises == ret.result # "KeyError"

\* C4: when a stop has returned no drain task of its name is active, and a
\* name that is absent from the registry has no active drain task
C4_NoDrainWithoutEntry ==
    /\ ret.op = "stop" => \A p \in Procs : task[p].name = ret.name => ~ActiveTask(p)
    /\ \A n \in Names : ~Has(processes, n)
          => \A p \in Procs : task[p].name = n => ~ActiveTask(p)

\* the last j lines the drain task of process p has read, in read order
LastRead(p, j) == [i \in 1..j |-> Line(p, task[p].read - j + i)]
Min(x, y) == IF x < y THEN x ELSE y

\* C5: get_output(n, k) returns at most k and at most 1000 entries, the
\* most recent ones in emission order
C5_AtMostK ==
    ret.op = "get_output" /\ Has(output_tasks, ret.name) =>
        /\ Len(ret.value) <= ret.arg
        /\ Len(ret.value) <= max_output_lines
        /\ ret.value = LastRead(Get(output_tasks, ret.name), Len(ret.value))

\* C6: a drain task ends only at end of stream or by cancellation, never
\* because the callback raised
C6_DrainSurvivesCallback ==
    \A p \in Procs : task[p].st = "done" => task[p].why \in {"eof", "cancelled"}

\* a stop that took the forced path returned True, after SIGKILL was sent,
\* with the child gone and is_running false
ForcedStopReturned ==
    /\ ret.op = "stop" /\ ret.path = "forced"
    /\ ret.result = "True"
    /\ proc[ret.process].kill > 0
    /\ ~Live(ret.process)
    /\ ~is_running(ret.name)

\* C7: a stop whose child has not exited within the timeout sends SIGKILL
\* and, once the kill is honoured, returns True with the child exited and
\* is_running false; no stop waits forever.
C7_ForcedStopReturns ==
    \A c \in {1} :
        /\ (call[c].op = "stop" /\ call[c].pc = "wait_kill") ~> ForcedStopReturned
        /\ (call[c].op = "stop") ~> (ret.op = "stop" /\ ret.result = "True")

\* C7 witness: a stop has returned True on the forced path, the child killed
\* and its exit seen by the loop
C7_Witness ==
    /\ ForcedStopReturned
    /\ proc[ret.process].st = "exited"
    /\ proc[ret.process].term > 0

\* C8: after stop returns True its name is not running and not in the
\* registry, and a start with that name that follows passes the name check
\* (it returns True unless the spawn fails).
C8_StopFreesName ==
    /\ [](ret.op = "stop" /\ ret.result = "True"
            => ~is_running(ret.name) /\ ~Has(processes, ret.name))
    /\ [][\A c \in Callers, n \in Names :
            /\ ret.op = "stop" /\ ret.result = "True" /\ ret.name = n
            /\ Begins(c, "start", n)
            => \/ ret'.op = "start" /\ ret'.path \in {"not_found", "spawn_failed"}
               \/ call'[c].pc = "create"]_vars
    /\ [][\A c \in Callers :
            Ends(c, "start")
            => ret' = Return("start", call[c].name, "True", "", call[c].process)]_vars

\* C8 witness: a start has returned True under a name whose earlier process
\* was stopped by force
C8_Witness ==
    /\ ret.op = "start" /\ ret.result = "True"
    /\ \E q \in Procs : /\ q # ret.process /\ proc[q].name = ret.name
                        /\ proc[q].kill > 0 /\ proc[q].st = "exited"

\* C9: when stop_all returns the registry is empty
C9_StopAllEmpties ==
    ret.op = "stop_all" /\ ret.result = "None" => processes = <<>>

NeverStarted(n) == \A p \in Procs : proc[p].name # n

\* C10: a stop of a name that was never started returns True at once and
\* changes neither the registry, the buffers, the drain tasks nor any child
\* (no signal is sent)
C10_StopUnknownIsNoOp ==
    [][\A c \in Callers, n \in Names :
         NeverStarted(n) /\ Begins(c, "stop", n)
         => /\ ret' = Return("stop", n, "True", "unknown", 0)
            /\ UNCHANGED <<processes, output_buffers, output_tasks, proc, task, call>>]_vars

\* C10 witness: a stop of a never started name has returned while another
\* name is registered and running
C10_Witness ==
    /\ ret.op = "stop" /\ ret.path = "unknown" /\ ret.result = "True"
    /\ NeverStarted(ret.name)
    /\ \E n \in Names : is_running(n) /\ ActiveTask(Get(output_tasks, n))

\* C11: get_output returns the empty list for every name that is not in
\* the registry, whether it was never started or was started and stopped
C11_UnknownNameEmpty ==
    ret.op = "get_output" /\ ~Has(processes, ret.name) => ret.value = <<>>

\* the entries of buffer buf that are lines of process p, in buffer order
Own(buf, p) == SelectSeq(buf, LAMBDA l : l[1] = p)

\* C12: every line a drain task reads is appended once to the buffer of its
\* name and passed once to the callback, in read order, both in the step
\* that reads it: the lines of a process in the buffer are its latest lines
\* in read order (all of them while the process is registered and the buffer
\* has room), the callback has been passed exactly the lines read, in order,
\* and a step that reads a line reads the next one only, appends it at the
\* end of the buffer and hands it to the callback.
C12_ReadOrder ==
    /\ [](\A p \in Procs : task[p].st # "none" =>
            LET buf == Get(output_buffers, task[p].name)
                own == Own(buf, p)
            IN /\ own = LastRead(p, Len(own))
               /\ Registered(task[p].name, p) /\ Len(buf) < max_output_lines
                     => Len(own) = task[p].read
               /\ task[p].passed = IF task[p].cb = "none" THEN <<>>
                                   ELSE LastRead(p, task[p].read))
    /\ [][\A p \in Procs : task'[p].read # task[p].read =>
            LET old == Get(output_buffers, task[p].name)
                new == Get(output_buffers', task[p].name)
                line == Line(p, task[p].read + 1)
            IN /\ task[p].st = "running"
               /\ task'[p].read = task[p].read + 1
               /\ new = IF Len(old) < max_output_lines THEN Append(old, line)
                        ELSE Append(Tail(old), line)
               /\ task[p].cb # "none" => task'[p].passed = Append(task[p].passed, line)]_vars

\* C12 witness: a drain task with a callback has read two lines or more,
\* all of them in the buffer and passed to the callback
C12_Witness ==
    \E p \in Procs :
        /\ task[p].cb = "given" /\ task[p].read >= 2
        /\ task[p].passed = LastRead(p, task[p].read)
        /\ Get(output_buffers, task[p].name) = LastRead(p, task[p].read)

\* C13: every buffer holds at most 1000 lines, and the buffer of a name is
\* exactly the last min(m, 1000) lines of the m lines the drain task of that
\* name has read, in read order
C13_BufferIsLastLines ==
    \A i \in 1..Len(output_buffers) :
        LET n == output_buffers[i][1]
            buf == output_buffers[i][2]
        IN /\ Len(buf) <= max_output_lines
           /\ Has(output_tasks, n) =>
                 LET p == Get(output_tasks, n)
                 IN buf = LastRead(p, Min(task[p].read, max_output_lines))

\* the state of every part of the manager and of every child
state == <<processes, output_buffers, output_tasks, proc, task, call>>

\* C14: is_running(n) is False for a name that is not in the registry, and
\* for a registered name it is True exactly when the Process object has no
\* exit status yet (the child runs, or its exit has not reached the loop);
\* the call changes nothing.
C14_IsRunning ==
    /\ [](ret.op = "is_running" =>
            LET n == ret.name
            IN /\ ~Has(processes, n) => ret.result = "False"
               /\ Has(processes, n) =>
                     LET p == Get(processes, n)
                     IN /\ ret.result = "True" <=> proc[p].returncode = None
                        /\ ret.result = "False" <=> proc[p].st = "exited"
                        /\ proc[p].st = "running" => ret.result = "True")
    /\ [][\A c \in Callers, n \in Names :
            Begins(c, "is_running", n) => UNCHANGED state]_vars

\* C14 witness: is_running has answered False for a name that is registered,
\* its child having exited without a stop
C14_Witness ==
    /\ ret.op = "is_running" /\ ret.result = "False"
    /\ Has(processes, ret.name)
    /\ proc[Get(processes, ret.name)].returncode = Some(0)

\* C15: get_status returns one entry for each name in the registry and for
\* no other name; in every entry running is true iff the exit code is null
\* iff the pid is not null; a child that has exited and was not stopped is
\* listed with running false, pid null and its exit code.
C15_StatusSnapshot ==
    ret.op = "get_status" =>
        /\ Len(ret.value) = Len(processes)
        /\ {ret.value[i][1] : i \in 1..Len(ret.value)}
             = {processes[i][1] : i \in 1..Len(processes)}
        /\ \A i \in 1..Len(ret.value) :
              LET e == ret.value[i][2]
                  p == Get(processes, ret.value[i][1])
              IN /\ e.running <=> e.returncode = None
                 /\ e.returncode = None <=> e.pid # None
                 /\ e.pid # None => e.pid = Some(p)
                 /\ e.returncode = proc[p].returncode
                 /\ proc[p].st = "running" => e.running
                 /\ proc[p].st = "exited"
                       => ~e.running /\ e.pid = None /\ e.returncode = Some(proc[p].status)

\* C15 witness: get_status has listed two names, one whose child runs and
\* one whose child has exited on its own with code 0
C15_Witness ==
    /\ ret.op = "get_status"
    /\ \E i, j \in 1..Len(ret.value) :
          /\ ret.value[i][2] = [running |-> TRUE, pid |-> Some(Get(processes, ret.value[i][1])),
                                returncode |-> None]
          /\ ret.value[j][2] = [running |-> FALSE, pid |-> None, returncode |-> Some(0)]

\* C16: a name leaves the registry only in a step of stop or stop_all; a
\* child's exit leaves its entry in place, with is_running false once the
\* exit status is set; and a start under a registered name returns False,
\* spawning and changing nothing, whatever the state of the registered
\* process.
C16_OnlyStopRemoves ==
    /\ [](\A n \in Names :
            Has(processes, n) /\ proc[Get(processes, n)].st = "exited" => ~is_running(n))
    /\ [][\A n \in Names :
            /\ Has(processes, n) /\ ~Has(processes', n)
                 => \/ ret'.op = "stop" /\ ret'.name = n
                    \/ ret'.op = "stop_all"
                    \/ \E c \in Callers : call'[c].op = "stop_all" /\ call'[c] # call[c]
            /\ \A c \in Callers :
                 Begins(c, "start", n) /\ Has(processes, n)
                 => /\ ret' = Return("start", n, "False", "in_use", 0)
                    /\ UNCHANGED state]_vars

\* C16 witness: a start has returned False under a name whose registered
\* child exited on its own (no signal was sent to it) and was not stopped
C16_Witness ==
    /\ ret.op = "start" /\ ret.result = "False" /\ ret.path = "in_use"
    /\ Has(processes, ret.name)
    /\ LET p == Get(processes, ret.name)
       IN proc[p].st = "exited" /\ proc[p].term = 0 /\ proc[p].kill = 0

\* C17: SIGKILL goes to a process only from a stop that sent it SIGTERM,
\* waited, and found at the timeout that it had not exited; a stop that
\* finds the process exited when its wait ends sends no SIGKILL; and SIGTERM
\* is sent only where a stop of the process begins, once.
C17_KillAfterTimeout ==
    [][\A p \in Procs :
         /\ proc'[p].kill # proc[p].kill
              => /\ proc'[p].kill = proc[p].kill + 1
                 /\ proc[p].term > 0
                 /\ proc[p].st = "running" /\ proc[p].returncode = None
                 /\ \E c \in Callers :
                       /\ InStop(c) /\ call[c].pc = "wait_term" /\ call[c].process = p
                       /\ call'[c].pc = "wait_kill" /\ call'[c].process = p
         /\ proc'[p].term # proc[p].term
              => /\ proc'[p].term = proc[p].term + 1
                 /\ proc'[p].kill = proc[p].kill
                 /\ \E c \in Callers :
                       /\ ~(call[c].pc \in {"wait_term", "wait_kill", "await_task"}
                            /\ call[c].process = p)
                       /\ call'[c].pc = "wait_term" /\ call'[c].process = p
         /\ \A c \in Callers :
              InStop(c) /\ call[c].pc = "wait_term" /\ call[c].process = p
              /\ call'[c] # call[c] /\ proc[p].returncode # None
              => proc'[p].kill = proc[p].kill]_vars

\* C17 witness: a stop has returned on the graceful path, its child exited
\* after one SIGTERM and no SIGKILL, while an earlier child was killed
C17_Witness ==
    /\ ret.op = "stop" /\ ret.path = "graceful" /\ ret.result = "True"
    /\ proc[ret.process].term = 1 /\ proc[ret.process].kill = 0
    /\ proc[ret.process].st = "exited"
    /\ \E q \in Procs : proc[q].kill > 0 /\ proc[q].term > 0

\* caller c is suspended inside a stop of name n (its own, or one made by
\* stop_all)
Stopping(c, n) ==
    /\ InStop(c) /\ call[c].name = n
    /\ call[c].pc \in {"wait_term", "wait_kill", "await_task"}

\* C18: a stop that signalled waits for the process to exit, then cancels
\* the drain task and awaits it, and removes the entry last: while a stop
\* of n is suspended n is in the registry, the drain task is cancelled only
\* once the process has exited, and a start under n that begins while a
\* stop of n is suspended returns False and spawns nothing.
C18_EntryStaysWhileStopping ==
    /\ [](\A c \in Callers, n \in Names :
            Stopping(c, n) =>
                /\ Has(processes, n)
                /\ call[c].pc = "await_task" => ~Live(call[c].process))
    /\ [][\A c, d \in Callers, n \in Names :
            Stopping(d, n) /\ Begins(c, "start", n)
            => /\ ret'.op = "start" /\ ret'.result = "False"
               /\ proc' = proc]_vars

\* C19: a stop that begins when the registered process of its name has
\* already exited (its exit status set, or its pid already gone) returns
\* True in that step, removes the name and no other from the registry, and
\* delivers no signal to any process.
C19_StopExitedSendsNothing ==
    [][\A c \in Callers, n \in Names :
         Begins(c, "stop", n) /\ Has(processes, n) /\ ~Live(Get(processes, n))
         => /\ ret'.op = "stop" /\ ret'.name = n /\ ret'.result = "True"
            /\ ret'.path = IF returncode(Get(processes, n)) # None
                           THEN "exited" ELSE "vanished"
            /\ processes' = Del(processes, n)
            /\ proc' = proc
            /\ call' = call]_vars

\* C19 witness: a stop has returned True for a name whose child had exited
\* on its own; the name is gone from the registry and the child was never
\* sent a signal
C19_Witness ==
    /\ ret.op = "stop" /\ ret.path = "exited" /\ ret.result = "True"
    /\ ~Has(processes, ret.name)
    /\ proc[ret.process].st = "exited"
    /\ proc[ret.process].term = 0 /\ proc[ret.process].kill = 0

\* C20: a start that returns False, for a name in use, an executable that
\* is not found or a spawn that fails, has changed nothing: the registry,
\* the buffers, the drain-task entries, the drain tasks and the children
\* are what they were before the call.
C20_FailedStartChangesNothing ==
    [][ret'.op = "start" /\ ret'.result = "False"
        => /\ ret'.path \in {"in_use", "not_found", "spawn_failed"}
           /\ UNCHANGED <<processes, output_buffers, output_tasks, task, proc>>
           /\ \E c \in Callers : Begins(c, "start", ret'.name)]_vars

\* C20 witness: a start has returned False under a name in use, whose
\* buffer holds lines and whose drain task is reading
C20_Witness ==
    /\ ret.op = "start" /\ ret.result = "False" /\ ret.path = "in_use"
    /\ Has(processes, ret.name)
    /\ Get(output_buffers, ret.name) # <<>>
    /\ task[Get(output_tasks, ret.name)].st = "running"

\* the processes that are sent SIGTERM in this step
Terminated == {p \in Procs : proc'[p].term # proc[p].term}

\* C21: stop_all stops its names one at a time with the timeout it was
\* given: a step sends SIGTERM to one process at most, and only as the
\* caller suspends in the stop of that process; when stop_all moves on to
\* another name the stop of the previous name is over and its entry removed;
\* the step in which stop_all returns sends no signal; and every stop it
\* makes is called with the timeout of the stop_all call, which stays the
\* same throughout.
C21_StopAllSequential ==
    [][/\ Cardinality(Terminated) <= 1
       /\ \A p \in Terminated :
             /\ proc'[p].term = proc[p].term + 1
             /\ \E c \in Callers : /\ call'[c] # call[c] /\ InStop(c)'
                                   /\ call'[c].pc = "wait_term" /\ call'[c].process = p
       /\ ret'.op = "stop_all" => Terminated = {}
       /\ \A c \in Callers :
             call'[c].op = "stop_all" /\ call'[c] # call[c]
             => /\ call'[c].stop_timeout = call'[c].timeout
                /\ call[c].op = "stop_all"
                     => /\ call'[c].timeout = call[c].timeout
                        /\ call'[c].name # call[c].name
                             => /\ ~Has(processes', call[c].name)
                                /\ call[c].process \notin Terminated]_vars

\* C21 witness: stop_all, called with a timeout other than the default, is
\* suspended in the stop of its second name, the first one stopped and
\* removed
C21_Witness ==
    /\ call[1].op = "stop_all" /\ call[1].pc = "wait_term"
    /\ call[1].timeout # DefaultTimeout /\ call[1].stop_timeout = call[1].timeout
    /\ proc[call[1].process].term = 1
    /\ \E q \in Procs : /\ q # call[1].process /\ proc[q].term = 1
                        /\ proc[q].st = "exited" /\ ~Has(processes, proc[q].name)

\* C22: a stop that finds the registered process without an exit status
\* but with its pid gone, so that terminate() raises ProcessLookupError,
\* returns True in that step without raising, removes its name from the
\* registry and signals nothing; the name is then not running and a start
\* under it passes the name check (it goes on to register unless the spawn
\* fails).
C22_VanishedIsStopped ==
    /\ [](ret.op = "stop" /\ ret.path = "vanished"
            => /\ ret.result = "True"
               /\ ~Has(processes, ret.name) /\ ~is_running(ret.name))
    /\ [][\A c \in Callers, n \in Names :
            /\ Begins(c, "stop", n) /\ Has(processes, n)
               /\ returncode(Get(processes, n)) = None
               /\ proc[Get(processes, n)].st = "gone"
               => /\ ret' = Return("stop", n, "True", "vanished", Get(processes, n))
                  /\ processes' = Del(processes, n)
                  /\ proc' = proc
            /\ ret.op = "stop" /\ ret.path = "vanished" /\ ret.name = n
               /\ Begins(c, "start", n)
               => \/ ret'.op = "start" /\ ret'.path \in {"not_found", "spawn_failed"}
                  \/ call'[c].pc = "create" /\ call'[c].name = n]_vars

\* C22 witness: a stop has returned True after terminate() found the pid
\* gone; the child got no signal and its name is out of the registry
C22_Witness ==
    /\ ret.op = "stop" /\ ret.path = "vanished" /\ ret.result = "True"
    /\ proc[ret.process].st = "gone" /\ returncode(ret.process) = None
    /\ proc[ret.process].term = 0 /\ proc[ret.process].kill = 0
    /\ ~Has(processes, ret.name)

\* C23: the buffer of a registered name holds only lines of the process
\* registered under it, the one started last: no line read from an earlier
\* process started under that name is in it
C23_BufferOwnLines ==
    \A n \in Names :
        Has(processes, n) =>
            LET buf == Get(output_buffers, n)
            IN \A i \in 1..Len(buf) : buf[i][1] = Get(processes, n)

\* the names that are keys of dict d
KeySet(d) == {d[i][1] : i \in 1..Len(d)}

\* C24: in every state the names in the registry are among the names with
\* a drain-task entry, and these among the names with a buffer; a start
\* that returns True leaves its name in all three; and no step takes the
\* drain-task entry or the buffer of a name away and leaves the name
\* registered.
C24_KeysNested ==
    /\ [](/\ KeySet(processes) \subseteq KeySet(output_tasks)
          /\ KeySet(output_tasks) \subseteq KeySet(output_buffers))
    /\ [][/\ ret'.op = "start" /\ ret'.result = "True"
              => /\ Has(processes', ret'.name)
                 /\ Has(output_tasks', ret'.name)
                 /\ Has(output_buffers', ret'.name)
          /\ \A n \in Names :
                Has(processes', n)
                => /\ Has(output_tasks, n) => Has(output_tasks', n)
                   /\ Has(output_buffers, n) => Has(output_buffers', n)]_vars

\* C24 witness: a start has returned True, its name in the registry with a
\* drain-task entry and a buffer, while another name that was stopped still
\* has its drain-task entry and its buffer
C24_Witness ==
    /\ ret.op = "start" /\ ret.result = "True"
    /\ ret.name \in KeySet(processes) \cap KeySet(output_tasks) \cap KeySet(output_buffers)
    /\ \E n \in Names : /\ n \notin KeySet(processes)
                        /\ n \in KeySet(output_tasks) \cap KeySet(output_buffers)

====
